---- MODULE Spec2Model ----
(***************************************************************************)
(* Model of the VGA text-buffer writer of BoredOS (src/src/vga_buffer.rs)   *)
(* and of the boot code that writes to the same device memory              *)
(* (src/src/main.rs).                                                      *)
(*                                                                         *)
(* The writer is the record held by the global WRITER: its cursor          *)
(* (column_position), its attribute byte (color_code) and the character    *)
(* grid it points to (buffer, indexed buffer[row][col] from 0).  The grid  *)
(* geometry is the pair BUFFER_HEIGHT, BUFFER_WIDTH; the source fixes it   *)
(* to 25 x 80, the model draws it from 2..MaxHeight x 2..MaxWidth so that  *)
(* whole rows and whole screens can be filled within the byte budget.      *)
(***************************************************************************)
EXTENDS Integers, Sequences, FiniteSets

VARIABLES
    BUFFER_HEIGHT,  \* number of rows of the grid (vga_buffer.rs:58)
    BUFFER_WIDTH,   \* number of columns of the grid (vga_buffer.rs:59)
    foreground,     \* Color argument of ColorCode::new
    background,     \* Color argument of ColorCode::new
    writer,         \* the Writer inside WRITER; Uninit before construction
    locked,         \* the lock flag of the spin::Mutex around the Writer
    pc,             \* per context: position inside _print
    call,           \* per context: its current (or, when idle, most recent) call
    called,         \* contexts that have used up their single call (PrintOnce)
    irq,            \* TRUE while the interrupt handler runs on top of the main code
    log             \* history: one entry per write_byte call, oldest first

vars == <<BUFFER_HEIGHT, BUFFER_WIDTH, foreground, background, writer, locked,
          pc, call, called, irq, log>>

(***************************************************************************)
(* Bounds of the model.                                                    *)
(***************************************************************************)
MaxHeight == 3
MaxWidth == 3
MaxBytes == 4

(***************************************************************************)
(* Program constants.                                                      *)
(***************************************************************************)
NL == 10
SPACE == 32
PRINTABLE_LO == 32
PRINTABLE_HI == 126
FALLBACK == 254
Black == 0
Yellow == 14
White == 15
BOOT_ATTR == 11
U8 == 256

\* static HELLO: &[u8] = b"Hello World!"
HELLO == <<72, 101, 108, 108, 111, 32, 87, 111, 114, 108, 100, 33>>

Color == Black..White
Byte == 0..(U8 - 1)

\* The two call sites of the concurrent specifications: 1 is the main code,
\* 2 the other caller (a second caller, or the interrupt handler).
Contexts == {1, 2}

\* Bytes the formatted text of a call is drawn from: in SpecScenario, in
\* Spec, and in the specifications with two call sites.
Alphabet == {NL, 65, 66, 67, 68}
Alphabet3 == {NL, 65, 66, 67}
Alphabet2 == {NL, 65, 66}

(***************************************************************************)
(* u8 arithmetic of ColorCode::new.                                        *)
(***************************************************************************)
RECURSIVE BitOr(_, _)
BitOr(a, b) ==
    IF a = 0 THEN b
    ELSE IF b = 0 THEN a
    ELSE (IF a % 2 = 1 \/ b % 2 = 1 THEN 1 ELSE 0) + 2 * BitOr(a \div 2, b \div 2)

RECURSIVE Pow2(_)
Pow2(n) == IF n = 0 THEN 1 ELSE 2 * Pow2(n - 1)

\* x << n on a u8: the bits shifted past bit 7 are lost.
Shl8(x, n) == (x * Pow2(n)) % U8

\* Mutant of ColorCodeNew: the two nibbles swapped.
ColorCodeNew_Swapped(fg, bg) == BitOr(Shl8(fg, 4), bg)

\* ColorCode((background as u8) << 4 | (foreground as u8))
ColorCodeNew(fg, bg) == BitOr(Shl8(bg, 4), fg)

(***************************************************************************)
(* Cells and the grid.                                                     *)
(***************************************************************************)
ScreenChar(ch, cc) == [ascii_character |-> ch, color_code |-> cc]

Rows == 0..(BUFFER_HEIGHT - 1)
Cols == 0..(BUFFER_WIDTH - 1)

\* The blank cell clear_row writes.
Blank(cc) == ScreenChar(SPACE, cc)

\* What display memory may hold before the program writes to it.  Neither
\* _start nor the construction of WRITER initialises it, so the content is
\* whatever the device holds; three contents stand for the possibilities:
\* every byte zero, every cell different (cell i has glyph 3*i and attribute
\* 33+i, modulo 256), and every cell a space in Yellow on Black.
MemoryKinds == {"zero", "pat", "blank"}

\* The cell number i, counted row by row from address 0xb8000.
DeviceCell(mem, i) ==
    CASE mem = "zero"  -> ScreenChar(0, 0)
      [] mem = "pat"   -> ScreenChar((3 * i) % U8, (33 + i) % U8)
      [] mem = "blank" -> ScreenChar(SPACE, ColorCodeNew(Yellow, Black))

\* The grid the writer finds at its first use: device memory of kind mem,
\* over which _start (if it ran: boot) has written HELLO cell by cell from
\* cell 0 with attribute 0xb, and nothing else.
BootBuffer(boot, mem) ==
    [row \in Rows |-> [col \in Cols |->
        IF boot /\ row * BUFFER_WIDTH + col < Len(HELLO)
        THEN ScreenChar(HELLO[row * BUFFER_WIDTH + col + 1], BOOT_ATTR)
        ELSE DeviceCell(mem, row * BUFFER_WIDTH + col)]]

(***************************************************************************)
(* Writer operations, as functions from writer record to writer record.    *)
(* The field scrolls is instrumentation: it counts the calls of new_line.  *)
(* The field oob is instrumentation too: it becomes TRUE when an operation *)
(* indexes chars[row][col] outside the grid (where the array index check   *)
(* of the source would panic).                                             *)
(***************************************************************************)
\* The positions of the grid.
InGrid(row, col) == row \in Rows /\ col \in Cols

\* The cells clear_row indexes: chars[row][col] for col in 0..BUFFER_WIDTH.
ClearAccess(row) == {<<row, col>> : col \in 0..(BUFFER_WIDTH - 1)}

\* The cells new_line's loops index: chars[row][col] is read and
\* chars[row - 1][col] written for row in 1..BUFFER_HEIGHT, col in 0..BUFFER_WIDTH.
CopyAccess ==
    UNION {{<<row, col>>, <<row - 1, col>>} :
              row \in 1..(BUFFER_HEIGHT - 1), col \in 0..(BUFFER_WIDTH - 1)}

OutOfGrid(cells) == \E rc \in cells : ~InGrid(rc[1], rc[2])

RECURSIVE ClearCols(_, _, _, _)
ClearCols(buf, row, col, blank) ==
    IF col >= BUFFER_WIDTH THEN buf
    ELSE ClearCols([buf EXCEPT ![row][col] = blank], row, col + 1, blank)

\* Mutant of clear_row: the loop stops one column short.
clear_row_Short(w, row) ==
    [w EXCEPT !.buffer = [ClearCols(w.buffer, row, 0, Blank(w.color_code))
                            EXCEPT ![row][BUFFER_WIDTH - 1] =
                                       w.buffer[row][BUFFER_WIDTH - 1]],
              !.oob = @ \/ OutOfGrid(ClearAccess(row))]

\* fn clear_row(&mut self, row: usize)
clear_row(w, row) ==
    [w EXCEPT !.buffer = ClearCols(w.buffer, row, 0, Blank(w.color_code)),
              !.oob = @ \/ OutOfGrid(ClearAccess(row))]

\* Mutant of CopyCols: the cell is written back to its own row.
RECURSIVE CopyCols_SameRow(_, _, _)
CopyCols_SameRow(buf, row, col) ==
    IF col >= BUFFER_WIDTH THEN buf
    ELSE CopyCols_SameRow([buf EXCEPT ![row][col] = buf[row][col]], row, col + 1)

\* The inner loop of new_line: for col in 0..BUFFER_WIDTH
RECURSIVE CopyCols(_, _, _)
CopyCols(buf, row, col) ==
    IF col >= BUFFER_WIDTH THEN buf
    ELSE CopyCols([buf EXCEPT ![row - 1][col] = buf[row][col]], row, col + 1)

\* Mutant of CopyRows: the rows are copied in descending order, last row first.
RECURSIVE CopyRows_Descending(_, _)
CopyRows_Descending(buf, row) ==
    IF row >= BUFFER_HEIGHT THEN buf
    ELSE CopyCols(CopyRows_Descending(buf, row + 1), row, 0)

\* The outer loop of new_line: for row in 1..BUFFER_HEIGHT
RECURSIVE CopyRows(_, _)
CopyRows(buf, row) ==
    IF row >= BUFFER_HEIGHT THEN buf
    ELSE CopyRows(CopyCols(buf, row, 0), row + 1)

\* Mutant of new_line: the last row is cleared before the rows are copied.
new_line_ClearFirst(w) ==
    LET cleared == [w EXCEPT !.buffer =
                        ClearCols(w.buffer, BUFFER_HEIGHT - 1, 0, Blank(w.color_code))]
        shifted == [cleared EXCEPT !.buffer = CopyRows(cleared.buffer, 1),
                                   !.oob = @ \/ OutOfGrid(CopyAccess)]
    IN  [shifted EXCEPT !.column_position = 0, !.scrolls = w.scrolls + 1]

\* Mutant of new_line: the last row is not cleared.
new_line_NoClear(w) ==
    LET shifted == [w EXCEPT !.buffer = CopyRows(w.buffer, 1),
                             !.oob = @ \/ OutOfGrid(CopyAccess)]
    IN  [shifted EXCEPT !.column_position = 0, !.scrolls = w.scrolls + 1]

\* Mutant of new_line: the cursor is not moved back to column 0.
new_line_KeepColumn(w) ==
    LET shifted == [w EXCEPT !.buffer = CopyRows(w.buffer, 1),
                             !.oob = @ \/ OutOfGrid(CopyAccess)]
        cleared == clear_row(shifted, BUFFER_HEIGHT - 1)
    IN  [cleared EXCEPT !.scrolls = w.scrolls + 1]

\* fn new_line(&mut self)
new_line(w) ==
    LET shifted == [w EXCEPT !.buffer = CopyRows(w.buffer, 1),
                             !.oob = @ \/ OutOfGrid(CopyAccess)]
        cleared == clear_row(shifted, BUFFER_HEIGHT - 1)
    IN  [cleared EXCEPT !.column_position = 0, !.scrolls = w.scrolls + 1]

\* Mutant of write_byte: the wrap test is > instead of >=.
write_byte_OffByOne(w, byte) ==
    IF byte = NL THEN new_line(w)
    ELSE
        LET w1  == IF w.column_position > BUFFER_WIDTH THEN new_line(w) ELSE w
            row == BUFFER_HEIGHT - 1
            col == w1.column_position
        IN  [w1 EXCEPT !.buffer[row][col] = ScreenChar(byte, w1.color_code),
                       !.column_position = col + 1,
                       !.oob = @ \/ ~InGrid(row, col)]

\* Mutant of write_byte: the row wraps as soon as its last column is written.
write_byte_EagerWrap(w, byte) ==
    IF byte = NL THEN new_line(w)
    ELSE
        LET row == BUFFER_HEIGHT - 1
            col == w.column_position
            w1  == [w EXCEPT !.buffer[row][col] = ScreenChar(byte, w.color_code),
                             !.column_position = col + 1,
                             !.oob = @ \/ ~InGrid(row, col)]
        IN  IF w1.column_position >= BUFFER_WIDTH THEN new_line(w1) ELSE w1

\* Mutant of write_byte: the character goes to the row above the last one.
write_byte_RowAbove(w, byte) ==
    IF byte = NL THEN new_line(w)
    ELSE
        LET w1  == IF w.column_position >= BUFFER_WIDTH THEN new_line(w) ELSE w
            row == BUFFER_HEIGHT - 2
            col == w1.column_position
        IN  [w1 EXCEPT !.buffer[row][col] = ScreenChar(byte, w1.color_code),
                       !.column_position = col + 1,
                       !.oob = @ \/ ~InGrid(row, col)]

\* pub fn write_byte(&mut self, byte: u8)
write_byte(w, byte) ==
    IF byte = NL THEN new_line(w)
    ELSE
        LET w1  == IF w.column_position >= BUFFER_WIDTH THEN new_line(w) ELSE w
            row == BUFFER_HEIGHT - 1
            col == w1.column_position
        IN  [w1 EXCEPT !.buffer[row][col] = ScreenChar(byte, w1.color_code),
                       !.column_position = col + 1,
                       !.oob = @ \/ ~InGrid(row, col)]

\* Mutant of Sanitize: every byte is handed to write_byte as it is.
Sanitize_Identity(b) == b

\* Mutant of Sanitize: the printable range ends at 0x7f instead of 0x7e.
Sanitize_Del(b) ==
    IF (PRINTABLE_LO <= b /\ b <= PRINTABLE_HI + 1) \/ b = NL THEN b ELSE FALLBACK

\* The match of write_string: the byte handed to write_byte for input byte b.
Sanitize(b) ==
    IF (PRINTABLE_LO <= b /\ b <= PRINTABLE_HI) \/ b = NL THEN b ELSE FALLBACK

\* pub fn write_string(&mut self, s: &str), s given as its bytes
RECURSIVE write_string(_, _)
write_string(w, s) ==
    IF s = <<>> THEN w
    ELSE write_string(write_byte(w, Sanitize(Head(s))), Tail(s))

\* WRITER before its first access: the lazy_static block has not run.
Uninit == [state |-> "uninit"]

\* Mutant of NewWriter: the writer is constructed with White as foreground.
NewWriter_White(fg, bg, buf) ==
    [column_position |-> 0,
     color_code |-> ColorCodeNew(White, bg),
     buffer |-> buf,
     scrolls |-> 0,
     oob |-> FALSE]

\* The Writer the lazy_static block constructs.
NewWriter(fg, bg, buf) ==
    [column_position |-> 0,
     color_code |-> ColorCodeNew(fg, bg),
     buffer |-> buf,
     scrolls |-> 0,
     oob |-> FALSE]

(***************************************************************************)
(* _print, step by step.  pc[c] is "idle" outside a call, "lock" while the *)
(* caller is in WRITER.lock(), "write" while it holds the guard and        *)
(* write_fmt runs.  call[c] records the macro used (kind), whether the     *)
(* "\n" that println! appends is still to come (pending), and the bytes    *)
(* the call has handed to write_str so far (text) and what write_fmt will  *)
(* return (result): "Ok" unless a write_str or the fmt of an argument      *)
(* returned "Err" (argerr tells that an argument did).  A caller whose     *)
(* unwrap fails is at "panicked": the panic handler loops forever and the  *)
(* guard is never dropped.  A call of kind "write_byte" is a caller's      *)
(* WRITER.lock().write_byte(b): the public method on the public static,    *)
(* with pending telling that its byte is still to be written.              *)
(***************************************************************************)
NoCall ==
    [kind |-> "none", pending |-> FALSE, text |-> <<>>, result |-> "Ok",
     argerr |-> FALSE]

\* Bytes still to be written by println! calls in progress.
Pending == Cardinality({c \in Contexts : pc[c] # "idle" /\ call[c].pending})

BeginCall(c, kind) ==
    /\ pc[c] = "idle"
    /\ writer # Uninit
    /\ kind # "print" => Len(log) + Pending < MaxBytes
    /\ pc' = [pc EXCEPT ![c] = "lock"]
    /\ call' = [call EXCEPT ![c] = [kind |-> kind,
                                    pending |-> (kind # "print"),
                                    text |-> <<>>,
                                    result |-> "Ok",
                                    argerr |-> FALSE]]
    /\ UNCHANGED <<BUFFER_HEIGHT, BUFFER_WIDTH, foreground, background, writer,
                   locked, irq, log>>

\* print!(...)
print(c) == BeginCall(c, "print") /\ UNCHANGED called

\* println!() and println!(...)
println(c) == BeginCall(c, "println") /\ UNCHANGED called

\* WRITER.lock().write_byte(b), called from outside the module
DirectCall(c) == BeginCall(c, "write_byte") /\ UNCHANGED called

\* Mutant of CanAcquire: the lock is granted whatever the flag says.
CanAcquire_Always == TRUE

\* WRITER.lock() succeeds only when the flag is clear, and sets it.
CanAcquire == ~locked

\* Mutant of Lock: the caller proceeds without having tested or set the flag.
Lock_NoFlag(c) ==
    /\ pc[c] = "lock"
    /\ pc' = [pc EXCEPT ![c] = "write"]
    /\ UNCHANGED <<BUFFER_HEIGHT, BUFFER_WIDTH, foreground, background, writer,
                   locked, call, called, irq, log>>

\* WRITER.lock() returns the guard.
Lock(c) ==
    /\ pc[c] = "lock"
    /\ CanAcquire
    /\ locked' = TRUE
    /\ pc' = [pc EXCEPT ![c] = "write"]
    /\ UNCHANGED <<BUFFER_HEIGHT, BUFFER_WIDTH, foreground, background, writer,
                   call, called, irq, log>>

\* Mutant of write_str: a byte outside printable ASCII is reported as an error.
write_str_ErrOnFallback(b) == IF Sanitize(b) = b THEN "Ok" ELSE "Err"

\* The fmt::Result of write_str for a piece of text: Ok(()) after write_string.
write_str(b) == "Ok"

\* What write_fmt returns after one more piece (a write_str of literal text
\* or the fmt of an argument) has returned r: the first error, if any.
WriteFmtResult(sofar, r) == IF sofar = "Ok" THEN r ELSE sofar

\* One byte of the text reaches write_string and, through its match, write_byte.
Emit(c, b) ==
    /\ writer' = write_byte(writer, Sanitize(b))
    /\ log' = Append(log, [ctx |-> c, raw |-> b, byte |-> Sanitize(b),
                           held |-> locked, before |-> writer,
                           direct |-> FALSE])

\* The byte of a direct call reaches write_byte as it is.
WriteDirect(c, b) ==
    /\ pc[c] = "write"
    /\ call[c].kind = "write_byte"
    /\ call[c].pending
    /\ writer' = write_byte(writer, b)
    /\ log' = Append(log, [ctx |-> c, raw |-> b, byte |-> b,
                           held |-> locked, before |-> writer,
                           direct |-> TRUE])
    /\ call' = [call EXCEPT ![c].text = Append(@, b), ![c].pending = FALSE]
    /\ UNCHANGED <<BUFFER_HEIGHT, BUFFER_WIDTH, foreground, background, locked,
                   pc, called, irq>>

\* The fmt of an argument returns Err without having written: write_fmt stops
\* there and returns Err, nothing more of the text is written.
ArgFails(c) ==
    /\ pc[c] = "write"
    /\ call[c].kind \in {"print", "println"}
    /\ call[c].kind = "println" => call[c].pending
    /\ call[c].result = "Ok"
    /\ call' = [call EXCEPT ![c].result = WriteFmtResult(@, "Err"),
                            ![c].argerr = TRUE,
                            ![c].pending = FALSE]
    /\ UNCHANGED <<BUFFER_HEIGHT, BUFFER_WIDTH, foreground, background, writer,
                   locked, pc, called, irq, log>>

\* write_fmt hands the next byte of the formatted arguments to write_str; in
\* println!'s "{}\n" the arguments come before the newline.
WriteArg(c, b) ==
    /\ pc[c] = "write"
    /\ call[c].kind \in {"print", "println"}
    /\ call[c].kind = "println" => call[c].pending
    /\ call[c].result = "Ok"
    /\ Len(log) + Pending < MaxBytes
    /\ Emit(c, b)
    /\ call' = [call EXCEPT ![c].text = Append(@, b),
                            ![c].result = WriteFmtResult(@, write_str(b))]
    /\ UNCHANGED <<BUFFER_HEIGHT, BUFFER_WIDTH, foreground, background, locked,
                   pc, called, irq>>

\* Mutant of WriteNewline: println! appends nothing.
WriteNewline_Nothing(c) ==
    /\ pc[c] = "write"
    /\ call[c].kind = "println"
    /\ call[c].pending
    /\ call' = [call EXCEPT ![c].pending = FALSE]
    /\ UNCHANGED <<BUFFER_HEIGHT, BUFFER_WIDTH, foreground, background, writer,
                   locked, pc, called, irq, log>>

\* The "\n" that println! appends after the arguments.
WriteNewline(c) ==
    /\ pc[c] = "write"
    /\ call[c].kind = "println"
    /\ call[c].pending
    /\ call[c].result = "Ok"
    /\ Emit(c, NL)
    /\ call' = [call EXCEPT ![c].text = Append(@, NL),
                            ![c].pending = FALSE,
                            ![c].result = WriteFmtResult(@, write_str(NL))]
    /\ UNCHANGED <<BUFFER_HEIGHT, BUFFER_WIDTH, foreground, background, locked,
                   pc, called, irq>>

\* Mutant of Released: the guard is leaked and the flag stays set.
Released_Leaked == TRUE

\* The value of the lock flag once the guard is dropped.
Released == FALSE

\* write_fmt has returned: on Ok unwrap passes and the guard is dropped; on
\* Err unwrap panics with the guard still alive.
Return(c) ==
    /\ pc[c] = "write"
    /\ ~call[c].pending
    /\ locked' = IF call[c].result = "Ok" THEN Released ELSE locked
    /\ pc' = [pc EXCEPT ![c] = IF call[c].result = "Ok" THEN "idle" ELSE "panicked"]
    /\ UNCHANGED <<BUFFER_HEIGHT, BUFFER_WIDTH, foreground, background, writer,
                   call, called, irq, log>>

(***************************************************************************)
(* Spec: one call site using print!/println! any number of times.          *)
(***************************************************************************)
InitCommon ==
    /\ BUFFER_HEIGHT \in 2..MaxHeight
    /\ BUFFER_WIDTH \in 2..MaxWidth
    /\ foreground = Yellow
    /\ background = Black
    /\ locked = FALSE
    /\ pc = [c \in Contexts |-> "idle"]
    /\ call = [c \in Contexts |-> NoCall]
    /\ called = {}
    /\ irq = FALSE
    /\ log = <<>>

Init ==
    /\ InitCommon
    /\ \E boot \in BOOLEAN, mem \in MemoryKinds :
         writer = NewWriter(foreground, background, BootBuffer(boot, mem))

Next ==
    \/ print(1)
    \/ println(1)
    \/ Lock(1)
    \/ \E b \in Alphabet3 : WriteArg(1, b)
    \/ WriteNewline(1)
    \/ Return(1)

Spec == Init /\ [][Next]_vars

(***************************************************************************)
(* SpecScenario: one call site printing texts over 'A'..'D' and the        *)
(* newline on a grid of 2 rows and 3 columns.                              *)
(***************************************************************************)
InitScenario ==
    /\ Init
    /\ BUFFER_HEIGHT = 2
    /\ BUFFER_WIDTH = 3

NextScenario ==
    \/ print(1)
    \/ Lock(1)
    \/ \E b \in Alphabet : WriteArg(1, b)
    \/ Return(1)

SpecScenario == InitScenario /\ [][NextScenario]_vars

(***************************************************************************)
(* SpecBytes: one call site; the text is a run of 'A's followed by one     *)
(* byte of any value, so that every byte value meets the match of          *)
(* write_string at every cursor position.  The byte may also be handed to  *)
(* write_byte directly, and the fmt of an argument of a call may fail.     *)
(***************************************************************************)
\* No byte other than 'A' has been written yet.
OnlyAs == \A i \in 1..Len(log) : log[i].raw = 65

NextBytes ==
    \/ OnlyAs /\ print(1)
    \/ OnlyAs /\ DirectCall(1)
    \/ Lock(1)
    \/ OnlyAs /\ pc[1] = "write" /\ \E b \in Byte : WriteArg(1, b)
    \/ OnlyAs /\ pc[1] = "write" /\ \E b \in Byte : WriteDirect(1, b)
    \/ OnlyAs /\ ArgFails(1)
    \/ Return(1)

SpecBytes == Init /\ [][NextBytes]_vars

(***************************************************************************)
(* SpecColor: the construction of WRITER for every pair of colors.         *)
(***************************************************************************)
InitColor ==
    /\ BUFFER_HEIGHT \in 2..MaxHeight
    /\ BUFFER_WIDTH \in 2..MaxWidth
    /\ foreground \in Color
    /\ background \in Color
    /\ writer = Uninit
    /\ locked = FALSE
    /\ pc = [c \in Contexts |-> "idle"]
    /\ call = [c \in Contexts |-> NoCall]
    /\ called = {}
    /\ irq = FALSE
    /\ log = <<>>

\* The body of the lazy_static block, run at the first access of WRITER.
Construct ==
    /\ writer = Uninit
    /\ \E boot \in BOOLEAN, mem \in MemoryKinds :
         writer' = NewWriter(foreground, background, BootBuffer(boot, mem))
    /\ UNCHANGED <<BUFFER_HEIGHT, BUFFER_WIDTH, foreground, background, locked,
                   pc, call, called, irq, log>>

NextColor == Construct

SpecColor == InitColor /\ [][NextColor]_vars

(***************************************************************************)
(* SpecPar: two call sites, each making one print!/println! call, their    *)
(* steps interleaved in every possible way; the fmt of an argument of a    *)
(* call may fail.                                                          *)
(***************************************************************************)
PrintOnce(c) ==
    /\ c \notin called
    /\ BeginCall(c, "print")
    /\ called' = called \cup {c}

PrintlnOnce(c) ==
    /\ c \notin called
    /\ BeginCall(c, "println")
    /\ called' = called \cup {c}

\* WRITER.lock() finds the flag set and tries again: the busy wait changes no
\* state, and only the holder's release ends it.
Spin(c) ==
    /\ pc[c] = "lock"
    /\ ~CanAcquire
    /\ UNCHANGED vars

Step(c) ==
    \/ PrintOnce(c)
    \/ PrintlnOnce(c)
    \/ Lock(c)
    \/ Spin(c)
    \/ \E b \in Alphabet2 : WriteArg(c, b)
    \/ WriteNewline(c)
    \/ Return(c)

NextPar == \E c \in Contexts : Step(c) \/ ArgFails(c)

SpecPar == Init /\ [][NextPar]_vars

(***************************************************************************)
(* SpecIrq: one processor.  Context 1 is the main code; context 2 is an    *)
(* interrupt handler that may preempt it between any two steps, makes one  *)
(* print!/println! call and returns.  While the handler runs the main code *)
(* does not: it resumes at the handler's return.  The processor never      *)
(* stops executing the running context (weak fairness of the next step).   *)
(***************************************************************************)
Running(c) == IF irq THEN c = 2 ELSE c = 1

Interrupt ==
    /\ ~irq
    /\ 2 \notin called
    /\ irq' = TRUE
    /\ UNCHANGED <<BUFFER_HEIGHT, BUFFER_WIDTH, foreground, background, writer,
                   locked, pc, call, called, log>>

InterruptReturn ==
    /\ irq
    /\ 2 \in called
    /\ pc[2] = "idle"
    /\ irq' = FALSE
    /\ UNCHANGED <<BUFFER_HEIGHT, BUFFER_WIDTH, foreground, background, writer,
                   locked, pc, call, called, log>>

NextIrq ==
    \/ Interrupt
    \/ InterruptReturn
    \/ \E c \in Contexts : Running(c) /\ Step(c)

SpecIrq == Init /\ [][NextIrq]_vars /\ WF_vars(NextIrq)

(***************************************************************************)
(* SpecReentrant: one caller.  While its call holds the guard and          *)
(* write_fmt runs, code it calls synchronously (the formatting of an       *)
(* argument) may itself call print!/println!: context 2 is that nested     *)
(* call, running on top of context 1, which continues only once the        *)
(* nested call has returned.                                               *)
(***************************************************************************)
Reenter ==
    /\ ~irq
    /\ pc[1] = "write"
    /\ 2 \notin called
    /\ irq' = TRUE
    /\ UNCHANGED <<BUFFER_HEIGHT, BUFFER_WIDTH, foreground, background, writer,
                   locked, pc, call, called, log>>

NextReentrant ==
    \/ Reenter
    \/ \E c \in Contexts : Running(c) /\ Step(c)

SpecReentrant == Init /\ [][NextReentrant]_vars /\ WF_vars(NextReentrant)

(***************************************************************************)
(* Vocabulary of the properties.                                           *)
(***************************************************************************)
LastRow == BUFFER_HEIGHT - 1

\* The writer as constructed, before any write_byte.
InitialWriter == IF log = <<>> THEN writer ELSE log[1].before

\* A row holding the given bytes from column 0 in color cc, blank after them.
TextRow(bytes, cc) ==
    [col \in Cols |-> IF col < Len(bytes) THEN ScreenChar(bytes[col + 1], cc)
                                         ELSE Blank(cc)]

BlankRow(cc) == [col \in Cols |-> Blank(cc)]

\* The bytes handed to write_byte by log entries from..to.
BytesOf(from, to) == [i \in 1..(to - from + 1) |-> log[from + i - 1].byte]

\* The last n write_byte calls all wrote non-newline bytes, and the cursor was
\* at column 0 before the first of them.
RunFromColumn0(n) ==
    /\ n >= 1
    /\ Len(log) >= n
    /\ log[Len(log) - n + 1].before.column_position = 0
    /\ \A i \in (Len(log) - n + 1)..Len(log) : log[i].byte # NL

\* The log ends with k newline bytes followed by n non-newline bytes.
NewlinesThenText(k, n) ==
    /\ Len(log) >= k + n
    /\ \A i \in (Len(log) - k - n + 1)..(Len(log) - n) : log[i].byte = NL
    /\ \A i \in (Len(log) - n + 1)..Len(log) : log[i].byte # NL

(***************************************************************************)
(* C3: from column 0, exactly BUFFER_WIDTH non-newline bytes fill the last *)
(* row left to right (byte i at column i) without a scroll and leave the   *)
(* cursor at BUFFER_WIDTH; one more non-newline byte causes exactly one    *)
(* scroll, lands at column 0 of the last row with the rest of that row     *)
(* blank, the full row is now the row above, and the cursor is 1.          *)
(***************************************************************************)
C3_FullRowThenWrap ==
    /\ RunFromColumn0(BUFFER_WIDTH) =>
         LET first == Len(log) - BUFFER_WIDTH + 1 IN
         /\ writer.scrolls = log[first].before.scrolls
         /\ writer.column_position = BUFFER_WIDTH
         /\ writer.buffer[LastRow] =
                TextRow(BytesOf(first, Len(log)), writer.color_code)
         /\ \A r \in Rows \ {LastRow} :
                writer.buffer[r] = log[first].before.buffer[r]
    /\ RunFromColumn0(BUFFER_WIDTH + 1) =>
         LET first == Len(log) - BUFFER_WIDTH IN
         /\ writer.scrolls = log[first].before.scrolls + 1
         /\ writer.column_position = 1
         /\ writer.buffer[LastRow] =
                TextRow(<<log[Len(log)].byte>>, writer.color_code)
         /\ writer.buffer[LastRow - 1] =
                TextRow(BytesOf(first, Len(log) - 1), writer.color_code)

C3_Witness ==
    /\ BUFFER_WIDTH = MaxWidth
    /\ RunFromColumn0(BUFFER_WIDTH + 1)
    /\ writer.column_position = 1
    /\ writer.scrolls = 1

(***************************************************************************)
(* C4 as stated: after write_byte of the newline byte the cursor is 0,     *)
(* every row r >= 1 has moved to row r-1, and the old content of row 0 is  *)
(* in no row of the grid unless another old row held the same content.     *)
(***************************************************************************)
C4_AsStated ==
    (log # <<>> /\ log[Len(log)].byte = NL) =>
        LET old == log[Len(log)].before IN
        /\ writer.column_position = 0
        /\ \A r \in 1..LastRow : writer.buffer[r - 1] = old.buffer[r]
        /\ (\E r \in Rows : writer.buffer[r] = old.buffer[0]) =>
               \E r2 \in 1..LastRow : old.buffer[r2] = old.buffer[0]

(***************************************************************************)
(* C4 amended: after write_byte of the newline byte the cursor is 0, every *)
(* row r >= 1 has moved to row r-1, the last row is blank in the writer's  *)
(* color, and the old content of row 0 is in no row of the grid unless     *)
(* another old row held the same content or the old row 0 was itself a     *)
(* blank row in the writer's color (the cleared last row then equals it).  *)
(***************************************************************************)
C4_NewlineShiftsRows ==
    (log # <<>> /\ log[Len(log)].byte = NL) =>
        LET old == log[Len(log)].before IN
        /\ writer.column_position = 0
        /\ \A r \in 1..LastRow : writer.buffer[r - 1] = old.buffer[r]
        /\ writer.buffer[LastRow] = BlankRow(old.color_code)
        /\ (\E r \in Rows : writer.buffer[r] = old.buffer[0]) =>
               \/ \E r2 \in 1..LastRow : old.buffer[r2] = old.buffer[0]
               \/ old.buffer[0] = BlankRow(old.color_code)

\* A newline has just been written onto a grid whose top row differed from
\* all its other rows and was not blank: that content is gone.
C4_Witness ==
    /\ log # <<>>
    /\ log[Len(log)].byte = NL
    /\ LET old == log[Len(log)].before IN
       /\ old.buffer[0] # BlankRow(old.color_code)
       /\ \A r2 \in 1..LastRow : old.buffer[r2] # old.buffer[0]
       /\ \A r \in Rows : writer.buffer[r] # old.buffer[0]
       /\ old.column_position > 0

(***************************************************************************)
(* C6 as stated: BUFFER_HEIGHT-1 newlines followed by one line of text (at *)
(* most BUFFER_WIDTH non-newline bytes) leave the text on the last row and *)
(* every row above the last row blank.                                     *)
(***************************************************************************)
C6_AsStated ==
    \A n \in 1..BUFFER_WIDTH :
        NewlinesThenText(BUFFER_HEIGHT - 1, n) =>
            /\ writer.buffer[LastRow] =
                   TextRow(BytesOf(Len(log) - n + 1, Len(log)), writer.color_code)
            /\ \A r \in Rows \ {LastRow} :
                   writer.buffer[r] = BlankRow(writer.color_code)

(***************************************************************************)
(* C6 amended: BUFFER_HEIGHT-1 newlines followed by one line of text leave *)
(* the text on the last row, rows 1..BUFFER_HEIGHT-2 blank, and row 0      *)
(* holding what the last row held before the first of the newlines; so     *)
(* every row above the last row is blank exactly when the last row was     *)
(* blank before the newlines.                                              *)
(***************************************************************************)
C6_NewlinesThenLine ==
    \A n \in 1..BUFFER_WIDTH :
        NewlinesThenText(BUFFER_HEIGHT - 1, n) =>
            LET start == log[Len(log) - n - (BUFFER_HEIGHT - 1) + 1].before IN
            /\ writer.buffer[LastRow] =
                   TextRow(BytesOf(Len(log) - n + 1, Len(log)), writer.color_code)
            /\ \A r \in 1..(LastRow - 1) :
                   writer.buffer[r] = BlankRow(writer.color_code)
            /\ writer.buffer[0] = start.buffer[LastRow]
            /\ (\A r \in Rows \ {LastRow} :
                    writer.buffer[r] = BlankRow(writer.color_code))
               <=> start.buffer[LastRow] = BlankRow(writer.color_code)

\* The newlines and a full line of text have been written, once from a blank
\* last row (the rows above are blank) ...
C6_Witness ==
    /\ NewlinesThenText(BUFFER_HEIGHT - 1, BUFFER_WIDTH)
    /\ log[Len(log) - BUFFER_WIDTH - (BUFFER_HEIGHT - 1) + 1].before.buffer[LastRow]
         = BlankRow(writer.color_code)
    /\ \A r \in Rows \ {LastRow} : writer.buffer[r] = BlankRow(writer.color_code)

(***************************************************************************)
(* C7: on a 2 x 3 grid that starts all blank, after "AB" the top row is    *)
(* blank and the bottom row is "AB "; after "C" the bottom row is "ABC",   *)
(* the cursor is 3 and nothing has scrolled; after "D" exactly one scroll  *)
(* has happened, the top row is "ABC", the bottom row "D  ", the cursor 1. *)
(***************************************************************************)
RawLog == [i \in 1..Len(log) |-> log[i].raw]

C7_Scenario2x3 ==
    (/\ BUFFER_HEIGHT = 2
     /\ BUFFER_WIDTH = 3
     /\ \A r \in Rows : InitialWriter.buffer[r] = BlankRow(writer.color_code)) =>
        LET cc == writer.color_code IN
        /\ RawLog = <<65, 66>> =>
             /\ writer.buffer[0] = BlankRow(cc)
             /\ writer.buffer[1] = TextRow(<<65, 66>>, cc)
        /\ RawLog = <<65, 66, 67>> =>
             /\ writer.buffer[0] = BlankRow(cc)
             /\ writer.buffer[1] = TextRow(<<65, 66, 67>>, cc)
             /\ writer.column_position = 3
             /\ writer.scrolls = 0
        /\ RawLog = <<65, 66, 67, 68>> =>
             /\ writer.scrolls = 1
             /\ writer.buffer[0] = TextRow(<<65, 66, 67>>, cc)
             /\ writer.buffer[1] = TextRow(<<68>>, cc)
             /\ writer.column_position = 1

\* "AB", "C" and "D" have been printed by three calls on the blank 2 x 3 grid.
C7_Witness ==
    /\ BUFFER_HEIGHT = 2
    /\ BUFFER_WIDTH = 3
    /\ \A r \in Rows : InitialWriter.buffer[r] = BlankRow(writer.color_code)
    /\ RawLog = <<65, 66, 67, 68>>
    /\ pc[1] = "idle"
    /\ call[1].text = <<68>>

(***************************************************************************)
(* C8: a println! call ends its text with the newline byte, and one given  *)
(* no arguments emits that byte and nothing else: when it returns exactly  *)
(* one scroll has happened since the call began, no glyph was written (the *)
(* rows moved up and nothing else changed), the last row is blank and the  *)
(* cursor is at column 0.                                                  *)
(***************************************************************************)
C8_EmptyPrintln ==
    \A c \in Contexts :
        (pc[c] = "idle" /\ call[c].kind = "println") =>
            /\ call[c].text # <<>>
            /\ call[c].text[Len(call[c].text)] = NL
            /\ log # <<>>
            /\ (Len(call[c].text) = 1 /\ log[Len(log)].ctx = c) =>
                 LET old == log[Len(log)].before IN
                 /\ log[Len(log)].byte = NL
                 /\ writer.scrolls = old.scrolls + 1
                 /\ writer.column_position = 0
                 /\ writer.buffer[LastRow] = BlankRow(writer.color_code)
                 /\ \A r \in 1..LastRow : writer.buffer[r - 1] = old.buffer[r]

\* println!() has returned after being called with text on the last row.
C8_Witness ==
    /\ pc[1] = "idle"
    /\ call[1].kind = "println"
    /\ call[1].text = <<NL>>
    /\ log[Len(log)].before.column_position > 0

(***************************************************************************)
(* C1: when two callers have each made one print call, interleaved in any  *)
(* way, the bytes that reached the grid are the whole text of one call     *)
(* followed by the whole text of the other (no byte of one call between    *)
(* bytes of the other), and the writer (grid, cursor, scroll count) is the *)
(* one obtained by running the two calls one after the other in that order.*)
(***************************************************************************)
BothReturned == called = Contexts /\ \A c \in Contexts : pc[c] = "idle"

Other(c) == CHOOSE d \in Contexts : d # c

C1_CallsSerialized ==
    BothReturned =>
        \E first \in Contexts :
            LET t1 == call[first].text
                t2 == call[Other(first)].text
            IN  /\ RawLog = t1 \o t2
                /\ \A i \in 1..Len(log) :
                       log[i].ctx = IF i <= Len(t1) THEN first ELSE Other(first)
                /\ writer = write_string(write_string(InitialWriter, t1), t2)

\* Both calls have returned, each wrote at least two bytes, the texts differ,
\* caller 2 got the lock first and the grid has scrolled.
C1_Witness ==
    /\ BothReturned
    /\ Len(call[1].text) >= 2
    /\ Len(call[2].text) >= 2
    /\ log[1].ctx = 2
    /\ call[1].text # call[2].text
    /\ writer.scrolls >= 1

(***************************************************************************)
(* C2: with an interrupt handler that may preempt the main code at any     *)
(* point, also while the main code holds the lock, every caller that       *)
(* starts acquiring the lock eventually acquires it, and its call          *)
(* eventually returns.                                                     *)
(***************************************************************************)
C2_EveryCallReturns ==
    \A c \in Contexts :
        /\ (pc[c] = "lock") ~> (pc[c] = "write")
        /\ (pc[c] = "lock") ~> (pc[c] = "idle")

(***************************************************************************)
(* C5: for every input byte of write_string, a byte in 0x20..0x7e is       *)
(* written as itself, the newline byte reaches write_byte as a newline     *)
(* (the grid scrolls, no glyph is stored), and every other byte value is   *)
(* replaced by 0xFE: the cell written for it holds glyph 0xFE in the       *)
(* writer's current color.                                                 *)
(***************************************************************************)
C5_ByteFilter ==
    (log # <<>> /\ ~log[Len(log)].direct) =>
        LET e    == log[Len(log)]
            cell == writer.buffer[LastRow][writer.column_position - 1]
        IN  /\ (32 <= e.raw /\ e.raw <= 126) =>
                 /\ e.byte = e.raw
                 /\ cell = ScreenChar(e.raw, e.before.color_code)
            /\ e.raw = 10 =>
                 /\ e.byte = 10
                 /\ writer.column_position = 0
                 /\ writer.scrolls = e.before.scrolls + 1
                 /\ writer.buffer[LastRow] = BlankRow(e.before.color_code)
            /\ (e.raw < 32 /\ e.raw # 10) \/ e.raw > 126 =>
                 /\ e.byte = 254
                 /\ cell = ScreenChar(254, e.before.color_code)

\* A byte just above the printable range has been written after a full row.
C5_Witness ==
    /\ log # <<>>
    /\ ~log[Len(log)].direct
    /\ log[Len(log)].raw = 127
    /\ log[Len(log)].before.column_position = BUFFER_WIDTH
    /\ writer.buffer[LastRow][0] = ScreenChar(254, writer.color_code)

(***************************************************************************)
(* C9: for all 16 x 16 pairs of colors (f, b), ColorCode::new(f, b) is the *)
(* byte (b << 4) | f = 16 * b + f, within 0..255; its high nibble is b and *)
(* its low nibble is f, so distinct pairs give distinct codes.             *)
(***************************************************************************)
C9_ColorCodeEncoding ==
    writer # Uninit =>
        LET code == writer.color_code IN
        /\ code \in 0..255
        /\ code = 16 * background + foreground
        /\ code \div 16 = background
        /\ code % 16 = foreground
        /\ \A f \in 0..15 : \A b \in 0..15 :
               ColorCodeNew(f, b) = code => (f = foreground /\ b = background)

\* The writer has been constructed with a background whose top bit is set and
\* a foreground different from it.
C9_Witness ==
    /\ writer # Uninit
    /\ background = 15
    /\ foreground = 1
    /\ writer.color_code = 241

(***************************************************************************)
(* C10: every print/println call holds the lock at each of its grid        *)
(* accesses and has released it when it returns: a caller inside write_fmt *)
(* holds the lock, every write_byte happened under the lock, and whenever  *)
(* no call is in progress the lock is free, also after calls with empty    *)
(* text.                                                                   *)
(***************************************************************************)
C10_LockHeldThenReleased ==
    /\ \A c \in Contexts : pc[c] = "write" => locked
    /\ \A i \in 1..Len(log) : log[i].held
    /\ (\A c \in Contexts : pc[c] = "idle") => ~locked

\* Both callers have returned, one from a call with empty text and one from a
\* println! with arguments, and the lock is free.
C10_Witness ==
    /\ BothReturned
    /\ call[1].kind = "print"
    /\ call[1].text = <<>>
    /\ call[2].kind = "println"
    /\ Len(call[2].text) >= 2
    /\ ~locked

(***************************************************************************)
(* C11: the formatted-output adapter always succeeds: write_str returns Ok *)
(* for every input (every byte value, every cursor position), so the       *)
(* unwrap in _print is never reached because of the writer: write_fmt      *)
(* returns Err, and the caller panics, only when the fmt of an argument    *)
(* returned Err; a call whose arguments format returns with the lock       *)
(* released.                                                               *)
(***************************************************************************)
C11_WriteStrAlwaysOk ==
    \A c \in Contexts :
        /\ \A i \in 1..Len(call[c].text) :
               call[c].kind # "write_byte" => write_str(call[c].text[i]) = "Ok"
        /\ (call[c].result = "Err" \/ pc[c] = "panicked") => call[c].argerr
        /\ (pc[c] = "idle" /\ call[c].kind # "none") => ~locked

\* A call whose text ends with a byte that write_string replaces by the
\* fallback glyph has returned.
C11_Witness ==
    /\ pc[1] = "idle"
    /\ call[1].kind = "print"
    /\ call[1].text # <<>>
    /\ call[1].text[Len(call[1].text)] = 255
    /\ Len(call[1].text) = MaxBytes
    /\ ~locked

(***************************************************************************)
(* C12: a caller that calls print/println while it already holds the       *)
(* writer lock deadlocks: the nested call stays in WRITER.lock() forever,  *)
(* the outer call stays inside write_fmt with the lock held, so the lock   *)
(* is never released and no print call completes any more.                 *)
(***************************************************************************)
Reentered == irq /\ pc[2] # "idle"

C12_ReentrantDeadlock ==
    [][ /\ Reentered => Reentered'
        /\ Reentered' => (pc'[2] = "lock" /\ pc'[1] = "write" /\ locked')
        /\ Reentered => (writer' = writer /\ log' = log /\ called' = called)
      ]_vars

\* The nested call is waiting for the lock its own caller holds, after the
\* outer call has written a byte.
C12_Witness ==
    /\ Reentered
    /\ pc[2] = "lock"
    /\ pc[1] = "write"
    /\ locked
    /\ call[1].text # <<>>

(***************************************************************************)
(* C13: the cursor column is always between 0 and BUFFER_WIDTH inclusive;  *)
(* every write_byte call either leaves it at 0 (newline byte) or leaves it *)
(* exactly one above the column it wrote at, which is the old column, or 0 *)
(* when the old column was BUFFER_WIDTH and the row wrapped; and no grid   *)
(* access of write_byte, new_line or clear_row falls outside rows          *)
(* 0..BUFFER_HEIGHT-1 and columns 0..BUFFER_WIDTH-1.                       *)
(***************************************************************************)
\* The writer as write_byte call number i of the log left it.
After(i) == IF i = Len(log) THEN writer ELSE log[i + 1].before

\* The latest write_byte call.  Every call is the latest one in the state it
\* leads to, so what holds of Last in every reachable state holds of every
\* call.
Last == log[Len(log)]

C13_CursorAndIndexBounds ==
    /\ writer.column_position \in 0..BUFFER_WIDTH
    /\ ~writer.oob
    /\ log # <<>> =>
         LET old == Last.before.column_position
             new == writer.column_position
         IN  IF Last.byte = NL THEN new = 0
             ELSE new = (IF old >= BUFFER_WIDTH THEN 0 ELSE old) + 1

\* A newline, then a full row, then one more byte that wrapped.
C13_Witness ==
    /\ Len(log) = MaxBytes
    /\ log[1].byte = NL
    /\ log[Len(log)].byte # NL
    /\ log[Len(log)].before.column_position = BUFFER_WIDTH
    /\ writer.column_position = 1
    /\ writer.scrolls = 2

(***************************************************************************)
(* C14: at most one caller holds the writer at any time: never are two     *)
(* calls both between acquiring and releasing the lock; so the grid        *)
(* accesses and cursor updates of a call are never interleaved with those  *)
(* of another: the write_byte calls of one caller are consecutive, and a   *)
(* caller inside write_fmt finds the writer exactly as its own bytes so    *)
(* far have left it.                                                       *)
(***************************************************************************)
Holders == {c \in Contexts : pc[c] \in {"write", "panicked"}}

C14_AtMostOneHolder ==
    /\ Cardinality(Holders) <= 1
    /\ \A i \in 1..(Len(log) - 2) :
         log[i + 1].ctx # log[i].ctx =>
             \A k \in (i + 2)..Len(log) : log[k].ctx # log[i].ctx
    /\ \A c \in Holders :
         LET n == Len(call[c].text) IN
         /\ n <= Len(log)
         /\ \A i \in (Len(log) - n + 1)..Len(log) : log[i].ctx = c
         /\ n >= 1 =>
              writer = write_string(log[Len(log) - n + 1].before, call[c].text)

\* Caller 1 holds the writer and has written two bytes, the grid has scrolled,
\* and caller 2 is waiting in WRITER.lock().
C14_Witness ==
    /\ pc[1] = "write"
    /\ Len(call[1].text) >= 2
    /\ pc[2] = "lock"
    /\ locked
    /\ writer.scrolls >= 1

(***************************************************************************)
(* C15: a character is only ever placed on the last row.  A write_byte of  *)
(* a non-newline byte that does not scroll changes exactly one cell, the   *)
(* one at row BUFFER_HEIGHT-1 and the old cursor column, to that byte in   *)
(* the writer's color, and leaves every other cell as it was.  The rows    *)
(* above the last one change only by the copy of a scroll: over any        *)
(* write_byte call each of them keeps its content or, if the call          *)
(* scrolled, takes that of the row below.                                  *)
(***************************************************************************)
C15_OnlyLastRowWritten ==
    log # <<>> =>
        LET old == Last.before
            new == writer
        IN  /\ (Last.byte # NL /\ old.column_position < BUFFER_WIDTH) =>
                 /\ new.scrolls = old.scrolls
                 /\ \A r \in Rows, c \in Cols :
                      new.buffer[r][c] =
                          IF r = BUFFER_HEIGHT - 1 /\ c = old.column_position
                          THEN [ascii_character |-> Last.byte,
                                color_code |-> old.color_code]
                          ELSE old.buffer[r][c]
            /\ \A r \in 0..(BUFFER_HEIGHT - 2) :
                 new.buffer[r] = IF new.scrolls = old.scrolls
                                 THEN old.buffer[r] ELSE old.buffer[r + 1]

\* Three rows, boot text still in the first, and the last write_byte put a
\* character into the last row after another one, without a scroll.
C15_Witness ==
    /\ BUFFER_HEIGHT = MaxHeight
    /\ log # <<>>
    /\ log[Len(log)].byte # NL
    /\ log[Len(log)].before.column_position = 1
    /\ writer.scrolls = log[Len(log)].before.scrolls
    /\ writer.buffer[0][0].ascii_character = HELLO[1]
    /\ writer.buffer[0][0].color_code = BOOT_ATTR

(***************************************************************************)
(* C16: new_line copies the rows upward in ascending order and then clears *)
(* the last row.  After every write_byte call that scrolled, each row r-1  *)
(* holds what row r held before the call (not what a later row held) for   *)
(* every r from 1 to BUFFER_HEIGHT-1; after a newline byte every cell of   *)
(* the last row is a space in the writer's color and the cursor is 0;      *)
(* after a wrap the last row holds the wrapping byte followed by such      *)
(* spaces.                                                                 *)
(***************************************************************************)
C16_ScrollCopiesAscending ==
    log # <<>> =>
        LET old == Last.before
            new == writer
        IN  new.scrolls # old.scrolls =>
              /\ new.scrolls = old.scrolls + 1
              /\ \A r \in 1..(BUFFER_HEIGHT - 1) : \A c \in Cols :
                     new.buffer[r - 1][c] = old.buffer[r][c]
              /\ \A c \in Cols :
                     new.buffer[BUFFER_HEIGHT - 1][c] =
                         IF Last.byte # NL /\ c = 0
                         THEN [ascii_character |-> Last.byte,
                               color_code |-> new.color_code]
                         ELSE [ascii_character |-> SPACE,
                               color_code |-> new.color_code]
              /\ new.column_position = IF Last.byte = NL THEN 0 ELSE 1

\* Three rows that all differed before the last write_byte, a newline, which
\* scrolled them.
C16_Witness ==
    /\ BUFFER_HEIGHT = MaxHeight
    /\ log # <<>>
    /\ log[Len(log)].byte = NL
    /\ log[Len(log)].before.buffer[0] # log[Len(log)].before.buffer[1]
    /\ log[Len(log)].before.buffer[1] # log[Len(log)].before.buffer[2]
    /\ log[Len(log)].before.buffer[0] # log[Len(log)].before.buffer[2]
    /\ log[Len(log)].before.column_position >= 1
    /\ writer.scrolls = log[Len(log)].before.scrolls + 1

(***************************************************************************)
(* C17: whatever bytes the write_string calls were given, every glyph the  *)
(* writer has stored is in 0x20..0x7e or is 0xFE, and the newline byte     *)
(* 0x0A is never stored: as long as the writer was used through            *)
(* write_string only, every byte handed to write_byte is one of those or   *)
(* the newline, the cell written for a non-newline byte holds it, a        *)
(* newline stores spaces only, and a cell of the grid holding any other    *)
(* glyph is a cell the display held before the writer's first write,       *)
(* moved up one row per scroll.                                            *)
(***************************************************************************)
Storable == (PRINTABLE_LO..PRINTABLE_HI) \cup {FALLBACK}

C17_StoredGlyphs ==
    (\A i \in 1..Len(log) : ~log[i].direct) =>
        /\ log # <<>> =>
             /\ Last.byte \in Storable \cup {NL}
             /\ Last.byte # NL =>
                  writer.buffer[BUFFER_HEIGHT - 1][writer.column_position - 1]
                      .ascii_character = Last.byte
             /\ Last.byte = NL =>
                  \A c \in Cols :
                      writer.buffer[BUFFER_HEIGHT - 1][c].ascii_character = SPACE
        /\ \A r \in Rows, c \in Cols :
             \/ writer.buffer[r][c].ascii_character \in Storable
             \/ /\ r + writer.scrolls \in Rows
                /\ writer.buffer[r][c] =
                       InitialWriter.buffer[r + writer.scrolls][c]

\* A carriage return was printed after a wrap: its cell holds 0xFE, and the
\* first row holds a glyph the display held before.
C17_Witness ==
    /\ Len(log) = MaxBytes
    /\ \A i \in 1..Len(log) : ~log[i].direct
    /\ writer.buffer[0][0].ascii_character \notin Storable
    /\ log[Len(log)].raw = 13
    /\ writer.scrolls >= 1
    /\ writer.buffer[BUFFER_HEIGHT - 1][writer.column_position - 1]
           .ascii_character = FALLBACK

(***************************************************************************)
(* C18: the wrap is deferred.  After the BUFFER_WIDTH-th byte of a row the *)
(* cursor stays at BUFFER_WIDTH and nothing scrolls; a newline written     *)
(* right after a full row causes exactly one scroll and leaves the full    *)
(* row directly above a blank last row; and a run of n >= 1 non-newline    *)
(* bytes started at column 0 causes exactly ceil(n / BUFFER_WIDTH) - 1     *)
(* scrolls.                                                                *)
(***************************************************************************)
CeilDiv(n, d) == (n + d - 1) \div d

\* The log ends with a run of BUFFER_WIDTH non-newline bytes started at column
\* 0, followed by one newline byte.
FullRowThenNewline ==
    /\ Len(log) >= BUFFER_WIDTH + 1
    /\ log[Len(log)].byte = NL
    /\ log[Len(log) - BUFFER_WIDTH].before.column_position = 0
    /\ \A i \in (Len(log) - BUFFER_WIDTH)..(Len(log) - 1) : log[i].byte # NL

C18_DeferredWrap ==
    /\ \A n \in 1..Len(log) :
         RunFromColumn0(n) =>
             /\ writer.scrolls - log[Len(log) - n + 1].before.scrolls =
                    CeilDiv(n, BUFFER_WIDTH) - 1
             /\ n = BUFFER_WIDTH => writer.column_position = BUFFER_WIDTH
    /\ FullRowThenNewline =>
         LET first == Len(log) - BUFFER_WIDTH IN
         /\ writer.scrolls = log[first].before.scrolls + 1
         /\ log[Len(log)].before.scrolls = log[first].before.scrolls
         /\ log[Len(log)].before.column_position = BUFFER_WIDTH
         /\ writer.buffer[BUFFER_HEIGHT - 2] =
                TextRow(BytesOf(first, Len(log) - 1), writer.color_code)
         /\ writer.buffer[BUFFER_HEIGHT - 1] = BlankRow(writer.color_code)
         /\ writer.column_position = 0

\* A full row of the widest grid, then a newline: one scroll in all.
C18_Witness ==
    /\ BUFFER_WIDTH = MaxWidth
    /\ FullRowThenNewline
    /\ writer.scrolls = 1
    /\ writer.column_position = 0

(***************************************************************************)
(* C19: once the grid has scrolled at least once, between write_byte calls *)
(* the last row is the non-newline bytes written since the last scroll, in *)
(* order from column 0 (the byte whose wrap caused that scroll included),  *)
(* followed by blank cells: the cells at columns below column_position     *)
(* hold those bytes and the cells from column_position on hold a space,    *)
(* all in the writer's color.                                              *)
(***************************************************************************)
Scrolled(i) == After(i).scrolls # log[i].before.scrolls

\* The number of the last write_byte call that scrolled.
LastScroll ==
    CHOOSE i \in 1..Len(log) :
        Scrolled(i) /\ \A j \in (i + 1)..Len(log) : ~Scrolled(j)

C19_LastRowSinceScroll ==
    writer.scrolls >= 1 =>
        LET from == IF log[LastScroll].byte = NL THEN LastScroll + 1
                                                 ELSE LastScroll
            n    == Len(log) - from + 1
        IN  /\ \E i \in 1..Len(log) : Scrolled(i)
            /\ \A i \in from..Len(log) : log[i].byte # NL
            /\ writer.column_position = n
            /\ \A c \in Cols :
                 writer.buffer[BUFFER_HEIGHT - 1][c] =
                     IF c < n
                     THEN [ascii_character |-> log[from + c].byte,
                           color_code |-> writer.color_code]
                     ELSE [ascii_character |-> SPACE,
                           color_code |-> writer.color_code]

\* The last row was full of text, a newline scrolled it away, and one byte
\* has been written since: the rest of the last row is blank.
C19_Witness ==
    /\ Len(log) >= 3
    /\ log[Len(log) - 1].byte = NL
    /\ log[Len(log) - 1].before.column_position = BUFFER_WIDTH
    /\ log[Len(log)].byte # NL
    /\ writer.column_position = 1
    /\ writer.scrolls >= 1

(***************************************************************************)
(* C20: the writer's color is set once, at construction, to Yellow on      *)
(* Black (attribute 0x0E) and never changes: every write_byte call finds   *)
(* and leaves it 0x0E, every cell the writer creates (a written character  *)
(* or a cell of a cleared row) has attribute 0x0E, and a cell with any     *)
(* other attribute is content that was on the screen before the writer's   *)
(* first write, at its original place moved up one row per scroll.         *)
(***************************************************************************)
C20_ColorFixed ==
    /\ writer.color_code = 14
    /\ log # <<>> =>
         /\ Last.before.color_code = 14
         /\ Last.byte # NL =>
              writer.buffer[BUFFER_HEIGHT - 1][writer.column_position - 1]
                  .color_code = 14
         /\ writer.scrolls # Last.before.scrolls =>
              \A c \in Cols :
                  writer.buffer[BUFFER_HEIGHT - 1][c].color_code = 14
    /\ \A r \in Rows, c \in Cols :
         writer.buffer[r][c].color_code # 14 =>
             /\ r + writer.scrolls \in Rows
             /\ writer.buffer[r][c] = InitialWriter.buffer[r + writer.scrolls][c]

\* Boot text in its own attribute has been moved up by a scroll, next to
\* characters the writer wrote in Yellow on Black.
C20_Witness ==
    /\ BUFFER_HEIGHT = MaxHeight
    /\ writer.scrolls = 1
    /\ writer.buffer[0][0].color_code = BOOT_ATTR
    /\ writer.buffer[0][0] = InitialWriter.buffer[1][0]
    /\ writer.buffer[1][0].color_code = 14
    /\ writer.buffer[1][0].ascii_character # SPACE
    /\ writer.column_position >= 1

====
